---- MODULE Spec2Model ----
(***************************************************************************)
(* MessagePack-RPC protocol engine of txmsgpackrpc/protocol.py:            *)
(* MsgpackBaseProtocol with its two adapters, MsgpackStreamProtocol and    *)
(* MsgpackDatagramProtocol.  One protocol instance is modelled; the        *)
(* transport, the reactor's timers, the remote peers and the application   *)
(* handlers are the environment.                                           *)
(*                                                                         *)
(* The protocol's fields are gathered in a record (Cur) so that a handler  *)
(* and every call it makes compose as operators from record to record.     *)
(* An operator that can raise returns [st |-> state, exc |-> exception].   *)
(***************************************************************************)
EXTENDS Integers, Sequences, FiniteSets, TLC

\* ---------------------------------------------------------------- bounds
\* outgoing requests created on the connection
MaxMsgid == 2
\* remote method calls (incoming Requests and Notifications) dispatched
MaxCalls == 2
\* notifications sent by this endpoint
MaxNotifications == 1
\* messages this endpoint writes, or is committed to write, in all
MaxWrites == 2
\* messages the unpacker may hold (left over plus newly fed)
MaxBuffer == 2
\* largest msgid a remote peer puts in a Request or a Response
MaxPeerMsgid == 2
\* complete messages one inbound delivery may carry
MaxDelivery == 2
\* msgids taken on a connection whose application sends a failed request
\* again
MaxRetryMsgid == 4

\* ------------------------------------------------------- program constants
MSGTYPE_REQUEST == 0
MSGTYPE_RESPONSE == 1
MSGTYPE_NOTIFICATION == 2

\* Python's None, where the value is otherwise a string
None == "None"
\* msgid = None: the msgid a notification is dispatched with
NoMsgid == 0
\* A context argument of None
NoContext == [some |-> FALSE, peer |-> None]
\* Context(peer=p)
Context(p) == [some |-> TRUE, peer |-> p]
\* no exception raised
NoExc == "none"

\* Remote peers of a datagram endpoint
Peers == {"a", "b"}
\* Method names a peer may call: "ok" returns at once, "slow" returns a
\* Deferred that fires later, "missing" has no remote_ method.
Methods == {"ok", "slow", "missing"}
\* The reasons the transport gives to connectionLost
Reasons == {"ConnectionDone", "ConnectionLost"}

VARIABLES
    adapter,            \* "stream" | "datagram": the class instantiated
    timeout,            \* constructor option: a timeout is configured
    sendErrors,         \* constructor option _sendErrors
    conn_address,       \* datagram: fixed remote address or None
    connected,          \* self.connected
    transport,          \* "unset" | "open" | "closing" | "closed"
    next_msgid,         \* self._next_msgid
    outgoing_requests,  \* self._outgoing_requests: msgid -> handle index
    incoming_requests,  \* self._incoming_requests: msgid -> [call, ctx]
    pendingTimeouts,    \* self._pendingTimeouts: key -> the DelayedCall held
    delayedCalls,       \* active DelayedCalls the map holds no more (a bag)
    handles,            \* the Deferreds returned by createRequest
    calls,              \* the remote method calls dispatched so far
    idle,               \* TimeoutMixin's idle timer: "none"|"armed"|"fired"
    unpacker,           \* messages fed to self._unpacker and not yet yielded
    wire,               \* the calls of transport.write (a bag)
    draining,           \* callbackOutgoingRequests is in its loop: the
                        \* failure func gives to errback, or None
    raised,             \* exception that escaped the last entry point
    printed             \* what rawDataReceived caught and printed last:
                        \* the exception and the message that raised it

config == <<adapter, timeout, sendErrors, conn_address>>

vars == <<adapter, timeout, sendErrors, conn_address, connected, transport,
          next_msgid, outgoing_requests, incoming_requests, pendingTimeouts,
          delayedCalls, handles, calls, idle, unpacker, wire, draining,
          raised, printed>>

\* ----------------------------------------------------------------- helpers
\* dict.pop / del: the mapping without key k
Without(f, k) == [x \in (DOMAIN f) \ {k} |-> f[x]]

\* dict[k] = v
With(f, k, v) == (k :> v) @@ f

EmptyMap == [x \in {} |-> None]

\* A bag (element -> number of copies) with one more, one less copy of x
BagAdd(b, x) ==
    IF x \in DOMAIN b THEN [b EXCEPT ![x] = @ + 1] ELSE (x :> 1) @@ b

BagRemove(b, x) ==
    IF b[x] > 1 THEN [b EXCEPT ![x] = @ - 1] ELSE Without(b, x)

BagSize(b) ==
    LET RECURSIVE Sum(_)
        Sum(d) == IF d = {} THEN 0
                  ELSE LET x == CHOOSE y \in d : TRUE
                       IN  b[x] + Sum(d \ {x})
    IN  Sum(DOMAIN b)

\* All orders in which the keys of a set can be visited
RECURSIVE Orders(_)
Orders(s) ==
    IF s = {} THEN {<<>>}
    ELSE UNION {{<<x>> \o o : o \in Orders(s \ {x})} : x \in s}

\* The protocol instance's fields as one record
Cur ==
    [connected |-> connected, transport |-> transport,
     next_msgid |-> next_msgid,
     outgoing_requests |-> outgoing_requests,
     incoming_requests |-> incoming_requests,
     pendingTimeouts |-> pendingTimeouts, delayedCalls |-> delayedCalls,
     handles |-> handles, calls |-> calls,
     idle |-> idle, unpacker |-> unpacker, wire |-> wire,
     draining |-> draining]

\* The next state is the record S
Becomes(S) ==
    /\ connected' = S.connected
    /\ transport' = S.transport
    /\ next_msgid' = S.next_msgid
    /\ outgoing_requests' = S.outgoing_requests
    /\ incoming_requests' = S.incoming_requests
    /\ pendingTimeouts' = S.pendingTimeouts
    /\ handles' = S.handles
    /\ calls' = S.calls
    /\ delayedCalls' = S.delayedCalls
    /\ idle' = S.idle
    /\ unpacker' = S.unpacker
    /\ wire' = S.wire
    /\ draining' = S.draining
    /\ UNCHANGED config

Ok(S) == [st |-> S, exc |-> NoExc]
Raise(S, e) == [st |-> S, exc |-> e]

\* ---------------------------------------------------------------- messages
\* (MSGTYPE_REQUEST, msgid, method, params)
Request(msgid, method) ==
    [type |-> MSGTYPE_REQUEST, msgid |-> msgid, method |-> method,
     error |-> None, result |-> None]

\* (MSGTYPE_RESPONSE, msgid, error, result)
Response(msgid, error, result) ==
    [type |-> MSGTYPE_RESPONSE, msgid |-> msgid, method |-> None,
     error |-> error, result |-> result]

\* (MSGTYPE_NOTIFICATION, method, params)
Notification(method) ==
    [type |-> MSGTYPE_NOTIFICATION, msgid |-> NoMsgid, method |-> method,
     error |-> None, result |-> None]

\* A method name used as a dictionary key: no msgid equals it
MethodKey(method) == -1

\* message[1]: the msgid of a Request or a Response, the method name of a
\* Notification
Field1(message) ==
    IF message.type = MSGTYPE_NOTIFICATION THEN MethodKey(message.method)
    ELSE message.msgid

\* No message
NoMessage ==
    [type |-> -1, msgid |-> NoMsgid, method |-> None,
     error |-> None, result |-> None]

\* What rawDataReceived printed: the exception caught and, of the message
\* whose handling raised it, the type and the msgid
Printed(exc, message) ==
    [exc |-> exc, type |-> message.type, msgid |-> message.msgid]

\* Nothing was printed
NotPrinted == Printed(NoExc, NoMessage)

\* Messages a remote peer may send
PeerMessages ==
    {Request(m, meth) : m \in 1..MaxPeerMsgid, meth \in Methods}
    \cup {Response(m, e, "res") : m \in 1..MaxPeerMsgid, e \in {None, "err"}}
    \cup {Notification(meth) : meth \in Methods}

\* Inbound deliveries of n complete messages
Deliveries(n) == [1..n -> PeerMessages]

\* self._unpacker.feed(data): what the unpacker buffers for each message of
\* data.  from is the context of the delivery that fed it; the unpacker
\* itself keeps bytes only, so nothing the protocol does reads from.
Fed(data, context) ==
    [i \in 1..Len(data) |-> [msg |-> data[i], from |-> context]]

\* The messages buffered in the unpacker u
Buffered(u) == [i \in 1..Len(u) |-> u[i].msg]

\* ------------------------------------------------------ Deferred, timers
\* A fresh Deferred for the request msgid
NewHandle(msgid) ==
    [msgid |-> msgid, calls |-> 0, outcome |-> "pending", value |-> None]

\* Deferred.callback / Deferred.errback on handle h: the first call fixes
\* the outcome, any further call raises AlreadyCalledError and leaves the
\* outcome as it is.  calls counts the invocations.
Fire(S, h, outcome, value) ==
    IF S.handles[h].calls = 0
    THEN Ok([S EXCEPT !.handles[h] =
                [@ EXCEPT !.calls = 1, !.outcome = outcome, !.value = value]])
    ELSE Raise([S EXCEPT !.handles[h].calls = @ + 1], "AlreadyCalledError")

\* A DelayedCall is kept while it can still act: while _pendingTimeouts
\* holds it (key -> [origin, status], status "active", "fired" or
\* "cancelled") and, once the map holds another call for its key, while it
\* is active (delayedCalls, a bag of [key, origin]).  origin is the type of
\* the message whose write scheduled it.

\* DelayedCall.cancel() on the call the map holds for key: raises when the
\* call has fired or was cancelled
Cancel(S, key) ==
    CASE S.pendingTimeouts[key].status = "active" ->
            Ok([S EXCEPT !.pendingTimeouts[key].status = "cancelled"])
      [] S.pendingTimeouts[key].status = "fired" -> Raise(S, "AlreadyCalled")
      [] OTHER -> Raise(S, "AlreadyCancelled")

\* ------------------------------------------------------------ send path
\* self._packer.pack(message): fails on a value msgpack cannot represent
Packable(message) == message.result # "unpackable"

\* One call of transport.write: the message, the address it is sent to, the
\* remote call (index in calls) whose Deferred chain wrote it (0 for a
\* message this endpoint originates) and whether that call was registered
\* in _incoming_requests under the message's msgid at the time of the write
Written(S, message, peer, rid) ==
    [msg |-> message, peer |-> peer, rid |-> rid,
     entry |-> /\ message.msgid \in DOMAIN S.incoming_requests
               /\ S.incoming_requests[message.msgid].call = rid]

\* MsgpackStreamProtocol.writeRawData / MsgpackDatagramProtocol.writeRawData:
\* the datagram adapter reads context.peer, which fails on a None context
writeRawData(S, message, rid, context) ==
    IF adapter = "stream"
    THEN Ok([S EXCEPT !.wire = BagAdd(@, Written(S, message, None, rid))])
    ELSE IF ~context.some
         THEN Raise(S, "AttributeError")
         ELSE Ok([S EXCEPT !.wire =
                    BagAdd(@, Written(S, message, context.peer, rid))])

\* MsgpackBaseProtocol.writeMessage
baseWriteMessage(S, message, rid, context) ==
    IF ~Packable(message)
    THEN Raise(S, IF sendErrors THEN "TypeError" ELSE "SerializationError")
    ELSE writeRawData(S, message, rid, context)

\* reactor.callLater(self.timeout, self.timeoutRequest, msgid) followed by
\* self._pendingTimeouts[msgid] = dc
scheduleTimeout(S, key, origin) ==
    LET replaced == /\ key \in DOMAIN S.pendingTimeouts
                    /\ S.pendingTimeouts[key].status = "active"
    IN  [S EXCEPT
           !.delayedCalls =
               IF replaced
               THEN BagAdd(@, [key |-> key,
                               origin |-> S.pendingTimeouts[key].origin])
               ELSE @,
           !.pendingTimeouts =
               With(@, key, [origin |-> origin, status |-> "active"])]

\* MsgpackDatagramProtocol.writeMessage: with a timeout configured a timer
\* keyed by message[1] is scheduled for every message written
datagramWriteMessage(S, message, rid, context) ==
    baseWriteMessage(IF timeout
                     THEN scheduleTimeout(S, Field1(message), message.type)
                     ELSE S,
                     message, rid, context)

\* self.writeMessage, resolved by the class of the instance
writeMessage(S, message, rid, context) ==
    IF adapter = "datagram"
    THEN datagramWriteMessage(S, message, rid, context)
    ELSE baseWriteMessage(S, message, rid, context)

\* getClientContext: None on a stream, Context(peer=conn_address) on a
\* datagram endpoint
getClientContext ==
    IF adapter = "stream" THEN NoContext ELSE Context(conn_address)

\* getNextMsgid returning the counter without incrementing it
getNextMsgid_NoIncrement(S) == S

\* MsgpackBaseProtocol.getNextMsgid: the state after the increment; the
\* msgid returned is its next_msgid
getNextMsgid(S) == [S EXCEPT !.next_msgid = @ + 1]

\* createRequest taking the msgid before it tests the connection
createRequest_CountsFirst(S) ==
    LET S1 == getNextMsgid(S)
        msgid == S1.next_msgid
    IN  IF S.connected # 1
        THEN Raise(S1, "ConnectionError")
        ELSE LET w == writeMessage(S1, Request(msgid, "call"), 0,
                                   getClientContext)
             IN  IF w.exc # NoExc THEN w
                 ELSE Ok([w.st EXCEPT
                            !.handles = Append(@, NewHandle(msgid)),
                            !.outgoing_requests =
                                With(@, msgid, Len(w.st.handles) + 1)])

\* MsgpackBaseProtocol.createRequest (MsgpackDatagramProtocol.createRequest
\* only repacks params)
createRequest(S) ==
    IF S.connected # 1
    THEN Raise(S, "ConnectionError")
    ELSE LET S1 == getNextMsgid(S)
             msgid == S1.next_msgid
             w == writeMessage(S1, Request(msgid, "call"), 0,
                               getClientContext)
         IN  IF w.exc # NoExc THEN w
             ELSE Ok([w.st EXCEPT
                        !.handles = Append(@, NewHandle(msgid)),
                        !.outgoing_requests =
                            With(@, msgid, Len(w.st.handles) + 1)])

\* MsgpackBaseProtocol.createNotification
createNotification(S) ==
    IF S.connected # 1
    THEN Raise(S, "ConnectionError")
    ELSE writeMessage(S, Notification("notify"), 0, getClientContext)

\* --------------------------------------------------------- receive path
\* responseReceived matching a Response to the oldest registered request
\* instead of the request registered under its msgid
baseResponseReceived_ByArrivalOrder(S, message) ==
    IF message.msgid \in DOMAIN S.outgoing_requests
    THEN LET first == CHOOSE m \in DOMAIN S.outgoing_requests :
                         \A n \in DOMAIN S.outgoing_requests : m <= n
             df == S.outgoing_requests[first]
             S1 == [S EXCEPT !.outgoing_requests = Without(@, first)]
         IN  IF message.error # None
             THEN Fire(S1, df, "ResponseError", message.error)
             ELSE Fire(S1, df, "success", message.result)
    ELSE Raise(S, "UnboundLocalError")

\* MsgpackBaseProtocol.responseReceived: the entry is popped; when there is
\* none the KeyError is passed over and df is then read unbound
baseResponseReceived(S, message) ==
    IF message.msgid \in DOMAIN S.outgoing_requests
    THEN LET df == S.outgoing_requests[message.msgid]
             S1 == [S EXCEPT !.outgoing_requests = Without(@, message.msgid)]
         IN  IF message.error # None
             THEN Fire(S1, df, "ResponseError", message.error)
             ELSE Fire(S1, df, "success", message.result)
    ELSE Raise(S, "UnboundLocalError")

\* MsgpackDatagramProtocol.responseReceived: cancel the timer the map holds
\* for the msgid, then the base path
datagramResponseReceived(S, message) ==
    IF message.msgid \in DOMAIN S.pendingTimeouts
    THEN LET c == Cancel(S, message.msgid)
         IN  IF c.exc # NoExc THEN c
             ELSE baseResponseReceived(c.st, message)
    ELSE baseResponseReceived(S, message)

\* self.responseReceived, resolved by the class of the instance
responseReceived(S, message) ==
    IF adapter = "datagram"
    THEN datagramResponseReceived(S, message)
    ELSE baseResponseReceived(S, message)

\* defer.maybeDeferred(self.callRemoteMethod, ...): the state of the Deferred
\* it returns
callRemoteMethod(methodName) ==
    CASE methodName = "ok" -> [status |-> "success", result |-> "val"]
      [] methodName = "slow" -> [status |-> "pending", result |-> None]
      [] OTHER -> [status |-> "failure", result |-> "failure"]

\* MsgpackBaseProtocol.respondCallback
respondCallback(S, result, msgid, rid) ==
    LET ctx == IF msgid \in DOMAIN S.incoming_requests
               THEN S.incoming_requests[msgid].ctx
               ELSE NoContext
    IN  writeMessage(S, Response(msgid, None, result), rid, ctx)

\* MsgpackBaseProtocol.respondError
respondError(S, msgid, error, rid) ==
    LET ctx == IF msgid \in DOMAIN S.incoming_requests
               THEN S.incoming_requests[msgid].ctx
               ELSE NoContext
    IN  writeMessage(S, Response(msgid, error, None), rid, ctx)

\* MsgpackBaseProtocol.respondErrback: the error payload is the brief
\* traceback with sendErrors and the error message without
respondErrback(S, msgid, rid) ==
    respondError(S, msgid, IF sendErrors THEN "traceback" ELSE "message", rid)

\* endRequest leaving the entry in the table
endRequest_KeepsEntry(S, msgid) == S

\* MsgpackBaseProtocol.endRequest
endRequest(S, msgid) ==
    IF msgid \in DOMAIN S.incoming_requests
    THEN [S EXCEPT !.incoming_requests = Without(@, msgid)]
    ELSE S

\* The callbacks requestReceived attaches, run when the handler's Deferred
\* fires: respondCallback on success, respondErrback on failure or when
\* respondCallback raised, endRequest in every case.  What respondErrback
\* raises stays in the Deferred.  The call's status becomes what the
\* Deferred fired with: "val", "unpackable" or "failure".
requestCallbacks(S, rid, msgid, success, result) ==
    LET r1 == IF success THEN respondCallback(S, result, msgid, rid)
              ELSE Raise(S, "Failure")
        r2 == IF r1.exc # NoExc THEN respondErrback(r1.st, msgid, rid)
              ELSE r1
    IN  [endRequest(r2.st, msgid) EXCEPT !.calls[rid].status = result]

\* requestReceived without the test for a msgid already in the table
requestReceived_NoCollisionTest(S, message, context) ==
    LET rid == Len(S.calls) + 1
        result == callRemoteMethod(message.method)
        S1 == [S EXCEPT
                 !.calls = Append(@, [msgid |-> message.msgid,
                                      ctx |-> context,
                                      status |-> "running"]),
                 !.incoming_requests =
                     With(@, message.msgid, [call |-> rid, ctx |-> context])]
    IN  IF result.status = "pending" THEN Ok(S1)
        ELSE Ok(requestCallbacks(S1, rid, message.msgid,
                                 result.status = "success", result.result))

\* MsgpackBaseProtocol.requestReceived
requestReceived(S, message, context) ==
    IF message.msgid \in DOMAIN S.incoming_requests
    THEN Raise(S, "InvalidRequest")
    ELSE LET rid == Len(S.calls) + 1
             result == callRemoteMethod(message.method)
             S1 == [S EXCEPT
                      !.calls = Append(@, [msgid |-> message.msgid,
                                           ctx |-> context,
                                           status |-> "running"]),
                      !.incoming_requests =
                          With(@, message.msgid,
                               [call |-> rid, ctx |-> context])]
         IN  IF result.status = "pending" THEN Ok(S1)
             ELSE Ok(requestCallbacks(S1, rid, message.msgid,
                                      result.status = "success",
                                      result.result))

\* notificationCallback answering the notification as respondCallback
\* answers a request
notificationCallback_Responds(S, rid, result) ==
    [respondCallback(S, result, NoMsgid, rid).st
        EXCEPT !.calls[rid].status = result]

\* MsgpackBaseProtocol.notificationCallback
notificationCallback(S, rid, result) ==
    [S EXCEPT !.calls[rid].status = result]

\* MsgpackBaseProtocol.notificationReceived
notificationReceived(S, message) ==
    LET rid == Len(S.calls) + 1
        result == callRemoteMethod(message.method)
        S1 == [S EXCEPT !.calls = Append(@, [msgid |-> NoMsgid,
                                             ctx |-> NoContext,
                                             status |-> "running"])]
    IN  IF result.status = "pending" THEN Ok(S1)
        ELSE Ok(notificationCallback(S1, rid, result.result))

\* MsgpackBaseProtocol.undefinedMessageReceived
undefinedMessageReceived(S, message) == Raise(S, "NotImplementedError")

\* MsgpackBaseProtocol.messageReceived
messageReceived(S, message, context) ==
    CASE message.type = MSGTYPE_REQUEST ->
            requestReceived(S, message, context)
      [] message.type = MSGTYPE_RESPONSE -> responseReceived(S, message)
      [] message.type = MSGTYPE_NOTIFICATION ->
            notificationReceived(S, message)
      [] OTHER -> undefinedMessageReceived(S, message)

\* The call log of S1, where the call started since S (if any) is marked
\* with the context of the delivery that carried its Request.  A
\* notification is never answered: the log does not keep its sender.
ReceivedFrom(S, S1, from) ==
    IF Len(S1.calls) > Len(S.calls)
    THEN [S1 EXCEPT !.calls[Len(S1.calls)] =
            [msgid |-> @.msgid, ctx |-> @.ctx, status |-> @.status,
             from |-> IF @.msgid = NoMsgid THEN NoContext ELSE from]]
    ELSE S1

\* for message in self._unpacker: self.messageReceived(message, context).
\* A message is taken from the unpacker when it is yielded; an exception
\* ends the loop and what was not yet yielded stays in the unpacker.
RECURSIVE dispatchMessages(_, _)
dispatchMessages(S, context) ==
    IF S.unpacker = <<>> THEN [st |-> S, exc |-> NoExc, msg |-> NoMessage]
    ELSE LET fed == Head(S.unpacker)
             r == messageReceived([S EXCEPT !.unpacker = Tail(@)],
                                  fed.msg, context)
         IN  IF r.exc # NoExc
             THEN [st |-> r.st, exc |-> r.exc, msg |-> fed.msg]
             ELSE dispatchMessages(ReceivedFrom(S, r.st, fed.from), context)

\* MsgpackBaseProtocol.rawDataReceived: exc is the exception caught and
\* printed, msg the message whose handling raised it
rawDataReceived(S, data, context) ==
    dispatchMessages([S EXCEPT !.unpacker = @ \o Fed(data, context)],
                     context)

\* ----------------------------------------------------- cancellation path
\* MsgpackDatagramProtocol.timeoutRequest
timeoutRequest(S, msgid) ==
    IF msgid \in DOMAIN S.outgoing_requests
    THEN Fire(S, S.outgoing_requests[msgid], "TimeoutError", None)
    ELSE Ok(S)

\* MsgpackBaseProtocol.callbackOutgoingRequests with func = d.errback(reason):
\* popitem takes the entries in the order given; an exception from func
\* ends the loop
RECURSIVE callbackOutgoingRequests(_, _, _)
callbackOutgoingRequests(S, reason, order) ==
    IF DOMAIN S.outgoing_requests = {} \/ order = <<>> THEN Ok(S)
    ELSE LET msgid == Head(order)
             d == S.outgoing_requests[msgid]
             r == Fire([S EXCEPT !.outgoing_requests = Without(@, msgid)],
                       d, reason, None)
         IN  IF r.exc # NoExc THEN r
             ELSE callbackOutgoingRequests(r.st, reason, Tail(order))

\* ----------------------------------------------------------------- actions
\* State after construction (__init__ of the base class and of the adapter):
\* TimeoutMixin.setTimeout(timeout) arms the stream's idle timer
Init ==
    /\ adapter \in {"stream", "datagram"}
    /\ timeout \in BOOLEAN
    /\ sendErrors = FALSE
    /\ conn_address \in (IF adapter = "datagram" THEN {None, "srv"}
                         ELSE {None})
    /\ connected = 0
    /\ transport = "unset"
    /\ next_msgid = 0
    /\ outgoing_requests = EmptyMap
    /\ incoming_requests = EmptyMap
    /\ pendingTimeouts = EmptyMap
    /\ handles = <<>>
    /\ calls = <<>>
    /\ delayedCalls = EmptyMap
    /\ idle = (IF adapter = "stream" /\ timeout THEN "armed" ELSE "none")
    /\ unpacker = <<>>
    /\ wire = EmptyMap
    /\ draining = None
    /\ raised = NoExc
    /\ printed = NotPrinted

\* Number of messages of seq that start a remote method call
NumCalls(seq) ==
    Cardinality({i \in 1..Len(seq) : seq[i].type # MSGTYPE_RESPONSE})

\* Number of notifications this endpoint has written
NumNotifications ==
    BagSize([w \in {x \in DOMAIN wire :
                       x.msg.type = MSGTYPE_NOTIFICATION} |-> wire[w]])

\* Number of Requests in seq
NumRequests(seq) ==
    Cardinality({i \in 1..Len(seq) : seq[i].type = MSGTYPE_REQUEST})

\* Messages written so far plus the Responses still owed to running calls
Writes ==
    BagSize(wire)
    + Cardinality({c \in 1..Len(calls) :
                      calls[c].status = "running" /\ calls[c].msgid # NoMsgid})

\* Deliveries that keep the unpacker, the call log and the writes within
\* the bounds
Feedable(data) ==
    /\ Len(unpacker) + Len(data) <= MaxBuffer
    /\ Len(calls) + NumCalls(Buffered(unpacker) \o data) <= MaxCalls
    /\ Writes + NumRequests(Buffered(unpacker) \o data) <= MaxWrites

\* MsgpackStreamProtocol.connectionMade
ConnectionMade ==
    /\ adapter = "stream"
    /\ transport = "unset"
    /\ Becomes([Cur EXCEPT !.connected = 1, !.transport = "open"])
    /\ raised' = NoExc
    /\ printed' = NotPrinted

\* MsgpackDatagramProtocol.startProtocol
StartProtocol ==
    /\ adapter = "datagram"
    /\ transport = "unset"
    /\ Becomes([Cur EXCEPT !.connected = 1, !.transport = "open"])
    /\ raised' = NoExc
    /\ printed' = NotPrinted

\* The application calls createRequest
CreateRequest ==
    /\ \/ connected # 1
       \/ /\ next_msgid < MaxMsgid
          /\ Writes + NumRequests(Buffered(unpacker)) < MaxWrites
    /\ LET r == createRequest(Cur)
       IN  /\ Becomes(r.st)
           /\ raised' = r.exc
    /\ printed' = NotPrinted

\* The application calls createNotification
CreateNotification ==
    /\ \/ connected # 1
       \/ /\ NumNotifications < MaxNotifications
          /\ Writes + NumRequests(Buffered(unpacker)) < MaxWrites
    /\ LET r == createNotification(Cur)
       IN  /\ Becomes(r.st)
           /\ raised' = r.exc
    /\ printed' = NotPrinted

\* MsgpackStreamProtocol.dataReceived: resetTimeout re-arms an armed idle
\* timer and leaves a fired one alone
DataReceived(n) ==
    /\ adapter = "stream"
    /\ transport \in {"open", "closing"}
    /\ \E data \in Deliveries(n) :
          /\ Feedable(data)
          /\ LET r == rawDataReceived(Cur, data, NoContext)
             IN  /\ Becomes(r.st)
                 /\ printed' = Printed(r.exc, r.msg)
    /\ raised' = NoExc

\* MsgpackDatagramProtocol.datagramReceived
DatagramReceived(n) ==
    /\ adapter = "datagram"
    /\ transport = "open"
    /\ \E data \in Deliveries(n), address \in Peers :
          /\ Feedable(data)
          /\ LET r == rawDataReceived(Cur, data, Context(address))
             IN  /\ Becomes(r.st)
                 /\ printed' = Printed(r.exc, r.msg)
    /\ raised' = NoExc

\* The Deferred of a suspended handler fires: with a value, with a value
\* msgpack cannot pack, or with a failure
HandlerCompletes ==
    /\ \E c \in 1..Len(calls), outcome \in {"val", "unpackable", "failure"} :
          /\ calls[c].status = "running"
          /\ Becomes(IF calls[c].msgid = NoMsgid
                     THEN notificationCallback(Cur, c, outcome)
                     ELSE requestCallbacks(Cur, c, calls[c].msgid,
                                           outcome # "failure", outcome))
    /\ raised' = NoExc
    /\ printed' = NotPrinted

\* MsgpackStreamProtocol.connectionLost
ConnectionLost ==
    /\ adapter = "stream"
    /\ transport \in {"open", "closing"}
    /\ \E reason \in Reasons, order \in Orders(DOMAIN outgoing_requests) :
          LET r == callbackOutgoingRequests(
                      [Cur EXCEPT !.connected = 0, !.transport = "closed"],
                      reason, order)
          IN  /\ Becomes(r.st)
              /\ raised' = r.exc
    /\ printed' = NotPrinted

\* timeoutConnection that only closes the transport, leaving the table as
\* it is
TimeoutConnection_ClosesOnly ==
    /\ adapter = "stream"
    /\ idle = "armed"
    /\ transport # "unset"
    /\ Becomes([Cur EXCEPT !.idle = "fired",
                           !.transport = IF @ = "open" THEN "closing" ELSE @])
    /\ raised' = NoExc
    /\ printed' = NotPrinted

\* MsgpackStreamProtocol.timeoutConnection, called when the idle timer
\* elapses: TimeoutMixin.timeoutConnection calls transport.loseConnection()
TimeoutConnection ==
    /\ adapter = "stream"
    /\ idle = "armed"
    /\ transport # "unset"
    /\ \E order \in Orders(DOMAIN outgoing_requests) :
          LET r == callbackOutgoingRequests([Cur EXCEPT !.idle = "fired"],
                                            "TimeoutError", order)
          IN  /\ Becomes(IF r.exc = NoExc /\ r.st.transport = "open"
                         THEN [r.st EXCEPT !.transport = "closing"]
                         ELSE r.st)
              /\ raised' = r.exc
    /\ printed' = NotPrinted

\* MsgpackStreamProtocol.closeConnection
LoseConnection ==
    /\ adapter = "stream"
    /\ transport = "open"
    /\ Becomes([Cur EXCEPT !.transport = "closing"])
    /\ raised' = NoExc
    /\ printed' = NotPrinted

\* MsgpackDatagramProtocol.connectionRefused: the transport reports it on a
\* connected datagram socket
ConnectionRefused ==
    /\ adapter = "datagram"
    /\ transport = "open"
    /\ conn_address # None
    /\ \E order \in Orders(DOMAIN outgoing_requests) :
          LET r == callbackOutgoingRequests(Cur, "ConnectionError", order)
          IN  /\ Becomes(r.st)
              /\ raised' = r.exc
    /\ printed' = NotPrinted

\* The reactor runs a DelayedCall made by writeMessage: timeoutRequest(key)
TimeoutRequest ==
    /\ \/ \E key \in DOMAIN pendingTimeouts :
             /\ pendingTimeouts[key].status = "active"
             /\ LET r == timeoutRequest(
                            [Cur EXCEPT !.pendingTimeouts[key].status = "fired"],
                            key)
                IN  /\ Becomes(r.st)
                    /\ raised' = r.exc
       \/ \E dc \in DOMAIN delayedCalls :
             LET r == timeoutRequest(
                         [Cur EXCEPT !.delayedCalls = BagRemove(@, dc)],
                         dc.key)
             IN  /\ Becomes(r.st)
                 /\ raised' = r.exc
    /\ printed' = NotPrinted

\* MsgpackDatagramProtocol.closeConnection
CloseConnection ==
    /\ adapter = "datagram"
    /\ transport = "open"
    /\ Becomes([Cur EXCEPT !.connected = 0, !.transport = "closed"])
    /\ raised' = NoExc
    /\ printed' = NotPrinted

\* One message arrives in a delivery
DataReceivedOne == DataReceived(1)
DatagramReceivedOne == DatagramReceived(1)

Next ==
    \/ ConnectionMade
    \/ StartProtocol
    \/ CreateRequest
    \/ CreateNotification
    \/ DataReceivedOne
    \/ DatagramReceivedOne
    \/ HandlerCompletes
    \/ ConnectionLost
    \/ TimeoutConnection
    \/ LoseConnection
    \/ ConnectionRefused
    \/ TimeoutRequest
    \/ CloseConnection

Spec == Init /\ [][Next]_vars

\* ------------------------------------------- deliveries of several messages
\* One delivery carries up to MaxDelivery complete messages
DataReceivedBatch == \E n \in 1..MaxDelivery : DataReceived(n)
DatagramReceivedBatch == \E n \in 1..MaxDelivery : DatagramReceived(n)

\* An endpoint constructed without a timeout and without a remote address:
\* a stream protocol, or a datagram protocol used as a server
InitBatch == Init /\ ~timeout /\ conn_address = None

NextBatch ==
    \/ ConnectionMade
    \/ StartProtocol
    \/ CreateRequest
    \/ CreateNotification
    \/ DataReceivedBatch
    \/ DatagramReceivedBatch
    \/ HandlerCompletes
    \/ ConnectionLost
    \/ LoseConnection
    \/ CloseConnection

SpecBatch == InitBatch /\ [][NextBatch]_vars

\* ------------------------------------ failed requests that are sent again
\* The errback the application adds to the Deferred of every request: it
\* sends the request again with createRequest.  An exception createRequest
\* raises stays in the Deferred's chain.
retry(S) == createRequest(S).st

\* One pass of the loop of callbackOutgoingRequests: popitem(), then
\* func(d); d.errback runs the application's errback before it returns
drainOne(S, msgid) ==
    LET r == Fire([S EXCEPT !.outgoing_requests = Without(@, msgid)],
                  S.outgoing_requests[msgid], S.draining, None)
    IN  IF r.exc # NoExc THEN r ELSE Ok(retry(r.st))

\* MsgpackStreamProtocol.timeoutConnection enters callbackOutgoingRequests
TimeoutConnectionBegins ==
    /\ adapter = "stream"
    /\ idle = "armed"
    /\ transport # "unset"
    /\ draining = None
    /\ Becomes([Cur EXCEPT !.idle = "fired", !.draining = "TimeoutError"])
    /\ raised' = NoExc
    /\ printed' = NotPrinted

\* MsgpackDatagramProtocol.connectionRefused enters
\* callbackOutgoingRequests
ConnectionRefusedBegins ==
    /\ adapter = "datagram"
    /\ transport = "open"
    /\ conn_address # None
    /\ draining = None
    /\ Becomes([Cur EXCEPT !.draining = "ConnectionError"])
    /\ raised' = NoExc
    /\ printed' = NotPrinted

\* The loop's test finds an entry: one pass.  An exception from func ends
\* the loop.
DrainIteration ==
    /\ draining # None
    /\ connected = 1 => next_msgid < MaxRetryMsgid
    /\ \E msgid \in DOMAIN outgoing_requests :
          LET r == drainOne(Cur, msgid)
          IN  /\ Becomes(IF r.exc # NoExc
                         THEN [r.st EXCEPT !.draining = None]
                         ELSE r.st)
              /\ raised' = r.exc
    /\ printed' = NotPrinted

\* The loop's test finds the table empty: callbackOutgoingRequests returns,
\* and TimeoutMixin.timeoutConnection calls transport.loseConnection()
DrainEnds ==
    /\ draining # None
    /\ outgoing_requests = EmptyMap
    /\ Becomes([Cur EXCEPT
                  !.draining = None,
                  !.transport = IF adapter = "stream" /\ @ = "open"
                                THEN "closing" ELSE @])
    /\ raised' = NoExc
    /\ printed' = NotPrinted

\* A stream protocol with an idle timeout, or a datagram protocol with a
\* remote address and no per-request timeout
InitRetry ==
    /\ Init
    /\ adapter = "stream" => timeout
    /\ adapter = "datagram" => (~timeout /\ conn_address # None)

\* The reactor calls one entry point at a time: none is entered while
\* callbackOutgoingRequests is in its loop
NextRetry ==
    \/ draining = None /\ ConnectionMade
    \/ draining = None /\ StartProtocol
    \/ draining = None /\ CreateRequest
    \/ draining = None /\ DataReceivedOne
    \/ draining = None /\ DatagramReceivedOne
    \/ draining = None /\ HandlerCompletes
    \/ draining = None /\ ConnectionLost
    \/ draining = None /\ LoseConnection
    \/ draining = None /\ CloseConnection
    \/ TimeoutConnectionBegins
    \/ ConnectionRefusedBegins
    \/ DrainIteration
    \/ DrainEnds

SpecRetry == InitRetry /\ [][NextRetry]_vars

\* ------------------------------------------------------------------ claims
\* Handles whose Deferred has not fired
Pending == {h \in 1..Len(handles) : handles[h].outcome = "pending"}

\* An active DelayedCall exists (held by the map or not)
ActiveTimers ==
    {key \in DOMAIN pendingTimeouts : pendingTimeouts[key].status = "active"}
    \cup {dc.key : dc \in DOMAIN delayedCalls}

\* C1: every completion handle returned by createRequest is resolved at most
\* once: callback/errback is invoked on it at most one time, whatever the
\* interleaving of Response, per-request timeout, connectionRefused, idle
\* timeout and disconnect.
C1_ResolvedAtMostOnce ==
    \A h \in 1..Len(handles) : handles[h].calls <= 1

\* C2: no handle stays pending for ever once the connection is closed.  After
\* the close nothing but a scheduled timer can still resolve a handle, so
\* with the connection closed and no timer left no handle may be pending.
C2_ClosedLeavesNonePending ==
    (transport = "closed" /\ ActiveTimers = {}) => Pending = {}

\* C3: the msgids assigned by createRequest start at 1, are strictly
\* increasing in the order of the calls (hence pairwise distinct) and never
\* exceed the counter; every entry of _outgoing_requests holds the handle
\* that was created for its msgid, so no entry was taken over by a newer
\* request.
C3_MsgidsStrictlyIncreasing ==
    /\ \A h \in 1..Len(handles) :
          /\ 1 <= handles[h].msgid
          /\ handles[h].msgid <= next_msgid
    /\ \A g, h \in 1..Len(handles) :
          g < h => handles[g].msgid < handles[h].msgid
    /\ \A m \in DOMAIN outgoing_requests :
          /\ outgoing_requests[m] \in 1..Len(handles)
          /\ handles[outgoing_requests[m]].msgid = m

\* C3 witness: two requests were created, the first already resolved and
\* removed, the second still registered
C3_Witness ==
    /\ Len(handles) = 2
    /\ handles[1].outcome # "pending"
    /\ DOMAIN outgoing_requests = {handles[2].msgid}

\* C4: a Response whose msgid has no entry in _outgoing_requests is dropped
\* without an exception leaving the response-handling path.  (AlreadyCalled,
\* AlreadyCancelled and UnboundLocalError are raised before the table is
\* changed, so the msgid is missing after the step iff it was missing
\* before.)
C4_UnmatchedResponseDiscarded ==
    ~ /\ printed.type = MSGTYPE_RESPONSE
      /\ printed.exc \in {"UnboundLocalError", "AlreadyCalled",
                          "AlreadyCancelled"}
      /\ printed.msgid \notin DOMAIN outgoing_requests

\* C5: after a stream connection is lost _outgoing_requests is empty, the
\* protocol is marked not connected and every handle that was pending at
\* the disconnect has failed with ConnectionError: no handle is pending and
\* none carries another failure than those a Response, the idle timeout or
\* a ConnectionError give.
C5_DisconnectFailsWithConnectionError ==
    (adapter = "stream" /\ transport = "closed") =>
        /\ outgoing_requests = EmptyMap
        /\ connected = 0
        /\ \A h \in 1..Len(handles) :
              handles[h].outcome \in {"success", "ResponseError",
                                      "TimeoutError", "ConnectionError"}

\* The DelayedCall scheduled when the Request msgid was written is active
RequestTimer(msgid) == [key |-> msgid, origin |-> MSGTYPE_REQUEST]

\* The DelayedCall scheduled when the Request msgid was written runs in
\* this step
OwnTimerFires(msgid) ==
    \/ /\ msgid \in DOMAIN pendingTimeouts
       /\ pendingTimeouts[msgid] =
              [origin |-> MSGTYPE_REQUEST, status |-> "active"]
       /\ msgid \in DOMAIN pendingTimeouts'
       /\ pendingTimeouts'[msgid] =
              [origin |-> MSGTYPE_REQUEST, status |-> "fired"]
    \/ /\ RequestTimer(msgid) \in DOMAIN delayedCalls
       /\ \/ RequestTimer(msgid) \notin DOMAIN delayedCalls'
          \/ delayedCalls'[RequestTimer(msgid)]
                < delayedCalls[RequestTimer(msgid)]

\* C6: on a datagram endpoint with a timeout, the timer of a request never
\* runs after a Response has resolved the request's handle, and when it
\* runs while the handle is pending the handle fails with TimeoutError.
C6_TimerCancelledByResponse ==
    [][\A h \in 1..Len(handles) :
          OwnTimerFires(handles[h].msgid) =>
             /\ handles[h].outcome \notin {"success", "ResponseError"}
             /\ handles[h].outcome = "pending" =>
                   handles'[h].outcome = "TimeoutError"]_vars

\* Calls started by a Request
RequestCalls == {c \in 1..Len(calls) : calls[c].msgid # NoMsgid}

\* The writes made by the Deferred chain of call c
WritesOf(c) == {w \in DOMAIN wire : w.rid = c}

\* C7: a Request whose msgid is in _incoming_requests is rejected with
\* InvalidRequest: no second handler runs for a msgid whose handler is
\* running, the entry keeps the first call and its context, and a call that
\* has completed was answered by exactly one Response with its msgid.
C7_DuplicateRequestRejected ==
    /\ \A c, d \in RequestCalls :
          (/\ c # d
           /\ calls[c].status = "running"
           /\ calls[d].status = "running") => calls[c].msgid # calls[d].msgid
    /\ \A c \in RequestCalls :
          calls[c].status = "running" =>
             /\ calls[c].msgid \in DOMAIN incoming_requests
             /\ incoming_requests[calls[c].msgid] =
                    [call |-> c, ctx |-> calls[c].ctx]
             /\ WritesOf(c) = {}
    /\ printed.exc = "InvalidRequest" =>
          /\ printed.type = MSGTYPE_REQUEST
          /\ printed.msgid \in DOMAIN incoming_requests
          /\ calls[incoming_requests[printed.msgid].call].status = "running"
    /\ \A c \in RequestCalls :
          calls[c].status # "running" =>
             /\ Cardinality(WritesOf(c)) = 1
             /\ \A w \in WritesOf(c) :
                   /\ wire[w] = 1
                   /\ w.msg.type = MSGTYPE_RESPONSE
                   /\ w.msg.msgid = calls[c].msgid

\* C7 witness: a Request was rejected for a msgid whose handler is running
C7_Witness ==
    /\ printed.exc = "InvalidRequest"
    /\ \E c \in RequestCalls :
          calls[c].msgid = printed.msgid /\ calls[c].status = "running"

\* C8: no Response is written for a notification and no notification is
\* entered in _incoming_requests: every Response on the wire was written by
\* the chain of a call started by a Request and carries that Request's
\* msgid, and every table entry belongs to such a call.
C8_NotificationNeverAnswered ==
    /\ \A w \in DOMAIN wire :
          w.msg.type = MSGTYPE_RESPONSE =>
             /\ w.rid \in RequestCalls
             /\ w.msg.msgid = calls[w.rid].msgid
    /\ \A c \in 1..Len(calls) :
          calls[c].msgid = NoMsgid => WritesOf(c) = {}
    /\ \A m \in DOMAIN incoming_requests :
          /\ m # NoMsgid
          /\ incoming_requests[m].call \in RequestCalls
          /\ calls[incoming_requests[m].call].msgid = m

\* C8 witness: one notification's handler failed at once and another
\* notification's handler completed later with a value
C8_Witness ==
    \E c, d \in 1..Len(calls) :
       /\ calls[c].msgid = NoMsgid /\ calls[c].status = "failure"
       /\ calls[d].msgid = NoMsgid /\ calls[d].status = "unpackable"

\* C9: while the handler of an accepted Request runs its entry is in
\* _incoming_requests and nothing was written for it; once it has completed
\* exactly one Response with its msgid was written, while the entry was
\* still in the table, and the entry is gone.  The Response carries the
\* handler's value and error = None when the handler returned a value that
\* was written; it carries an error and result = None when the handler
\* failed or its value could not be packed.
C9_OneResponseThenRemoved ==
    \A c \in RequestCalls :
       IF calls[c].status = "running"
       THEN /\ WritesOf(c) = {}
            /\ calls[c].msgid \in DOMAIN incoming_requests
            /\ incoming_requests[calls[c].msgid].call = c
       ELSE /\ Cardinality(WritesOf(c)) = 1
            /\ \A w \in WritesOf(c) :
                  /\ wire[w] = 1
                  /\ w.entry
                  /\ w.msg = IF calls[c].status = "val"
                             THEN Response(calls[c].msgid, None, "val")
                             ELSE Response(calls[c].msgid, "message", None)
            /\ calls[c].msgid \in DOMAIN incoming_requests =>
                  incoming_requests[calls[c].msgid].call # c

\* C9 witness: one handler still runs while two calls have completed, one
\* with a value and one with a failure
C9_Witness ==
    \E c, d \in RequestCalls :
       /\ calls[c].status = "val"
       /\ calls[d].status = "running"

\* The messages this endpoint originated (Requests and Notifications)
OwnWrites == [w \in {x \in DOMAIN wire : x.rid = 0} |-> wire[w]]

\* C10: createRequest and createNotification on a protocol that is not
\* connected raise ConnectionError and change nothing: a step that raises
\* ConnectionError starts not connected and leaves the counter, the tables,
\* the timers and the wire as they were, and no step taken while not
\* connected takes a msgid, creates a handle, registers a request or writes
\* a Request or a Notification.
C10_NotConnectedSendFails ==
    [][/\ raised' = "ConnectionError" =>
            /\ connected # 1
            /\ UNCHANGED <<connected, transport, next_msgid,
                           outgoing_requests, incoming_requests,
                           pendingTimeouts, delayedCalls, handles, calls,
                           wire>>
       /\ connected # 1 =>
            /\ next_msgid' = next_msgid
            /\ Len(handles') = Len(handles)
            /\ DOMAIN outgoing_requests' \subseteq DOMAIN outgoing_requests
            /\ OwnWrites' = OwnWrites]_vars

\* C10 witness: a send was refused on a connection that had been open and
\* still has a request registered
C10_Witness ==
    /\ raised = "ConnectionError"
    /\ connected # 1
    /\ transport = "closed"
    /\ outgoing_requests # EmptyMap

\* The Responses a peer may send
PeerResponses == {m \in PeerMessages : m.type = MSGTYPE_RESPONSE}

\* Handles a Response resolves in this step
ResolvedByResponse ==
    {h \in 1..Len(handles) :
        /\ handles[h].outcome = "pending"
        /\ handles'[h].outcome \in {"success", "ResponseError"}}

\* C11: with requests pending, a Response resolves exactly the handle
\* registered under its msgid and removes only that entry, in whatever
\* order the Responses arrive: error # None fails the handle with
\* ResponseError carrying the payload, error = None succeeds it with the
\* result, invoked once; every other pending handle stays pending and
\* keeps its entry.  Stated for every Response a peer may send in every
\* reachable state, and for every step that resolves a handle.
C11_ResponseMatchedByMsgid ==
    /\ [](\A message \in PeerResponses :
             (/\ message.msgid \in DOMAIN outgoing_requests
              /\ handles[outgoing_requests[message.msgid]].outcome = "pending")
             =>
             LET r == responseReceived(Cur, message)
                 h == outgoing_requests[message.msgid]
             IN  /\ r.exc = NoExc
                 /\ r.st.outgoing_requests =
                        Without(outgoing_requests, message.msgid)
                 /\ r.st.handles =
                        [handles EXCEPT ![h] =
                            [msgid |-> message.msgid, calls |-> 1,
                             outcome |-> IF message.error # None
                                         THEN "ResponseError" ELSE "success",
                             value |-> IF message.error # None
                                       THEN message.error
                                       ELSE message.result]])
    /\ [][ResolvedByResponse # {} =>
            /\ DOMAIN outgoing_requests' =
                  DOMAIN outgoing_requests
                     \ {handles[h].msgid : h \in ResolvedByResponse}
            /\ \A g \in Pending \ ResolvedByResponse :
                  /\ handles'[g] = handles[g]
                  /\ handles[g].msgid \in DOMAIN outgoing_requests'
                  /\ outgoing_requests'[handles[g].msgid] = g]_vars

\* C11 witness: the second of two requests was resolved by its Response
\* while the first, sent earlier, is still pending and registered
C11_Witness ==
    /\ Len(handles) = 2
    /\ handles[2].outcome \in {"success", "ResponseError"}
    /\ handles[1].outcome = "pending"
    /\ DOMAIN outgoing_requests = {handles[1].msgid}

\* C12: a per-request timeout that fires before the Response fails the
\* handle with TimeoutError and removes its entry, so _outgoing_requests
\* never holds a handle that has been resolved.
C12_TableHoldsOnlyPending ==
    \A m \in DOMAIN outgoing_requests :
       handles[outgoing_requests[m]].outcome = "pending"

\* A step of one of the sources that abort the outgoing requests
AbortStep == ConnectionLost \/ TimeoutConnection \/ ConnectionRefused

\* C13: a stream disconnect, a stream idle timeout and a datagram
\* connectionRefused each fail every handle that is pending when they run,
\* exactly once, and leave _outgoing_requests empty, whatever happened
\* before on the connection (earlier per-request timeouts included).
C13_AbortFailsEveryPending ==
    [][AbortStep =>
          /\ outgoing_requests' = EmptyMap
          /\ \A h \in Pending :
                /\ handles'[h].outcome \in
                       Reasons \cup {"TimeoutError", "ConnectionError"}
                /\ handles'[h].calls = 1]_vars

\* C14: on a datagram endpoint with no fixed remote address, while the
\* handler of a Request from one peer runs, a Request with the same msgid
\* from another peer is accepted and dispatched to its handler: it raises
\* nothing and starts one more call.
C14_PeersDistinguishedByContext ==
    (adapter = "datagram" /\ conn_address = None /\ transport = "open") =>
       \A m \in DOMAIN incoming_requests, p \in Peers, meth \in Methods :
          (/\ incoming_requests[m].ctx # Context(p)
           /\ calls[incoming_requests[m].call].status = "running") =>
             LET r == requestReceived(Cur, Request(m, meth), Context(p))
             IN  /\ r.exc = NoExc
                 /\ Len(r.st.calls) = Len(calls) + 1

\* C15: on the datagram adapter every Response written for an incoming
\* Request goes to the address the Request was received from, whether the
\* handler completed at once or later.
C15_ResponseToOriginatingPeer ==
    adapter = "datagram" =>
       \A w \in DOMAIN wire :
          w.msg.type = MSGTYPE_RESPONSE =>
             /\ calls[w.rid].from.some
             /\ w.peer = calls[w.rid].from.peer

\* C16: every complete message of a delivery is dispatched during that
\* delivery, also after a message whose handling raised: when the delivery
\* has been handled the unpacker holds no complete message.
C16_DeliveryFullyDispatched == unpacker = <<>>

\* A DelayedCall made when a Response or a Notification with key msgid was
\* written, which the map holds no more since a later write with the same
\* key, runs in this step
EarlierTimerFires(msgid) ==
    \E dc \in DOMAIN delayedCalls :
       /\ dc.key = msgid
       /\ dc.origin # MSGTYPE_REQUEST
       /\ \/ dc \notin DOMAIN delayedCalls'
          \/ delayedCalls'[dc] < delayedCalls[dc]

\* C17: on the datagram adapter only the timer scheduled when a Request
\* was sent fails that request with TimeoutError.  A timer made when a
\* Response for an incoming request with the same msgid was written, before
\* the Request was sent, does not fail it early: the handle is still
\* pending after that timer has run.
C17_NoEarlyTimeout ==
    [][\A h \in 1..Len(handles) :
          (/\ adapter = "datagram"
           /\ handles[h].outcome = "pending"
           /\ EarlierTimerFires(handles[h].msgid)) =>
             handles'[h].outcome = "pending"]_vars

\* C18: _pendingTimeouts drops the token of a msgid when its timer is
\* cancelled by a Response and when the timer fires: the map never holds a
\* DelayedCall that has fired or was cancelled.
C18_NoStaleToken ==
    \A key \in DOMAIN pendingTimeouts :
       pendingTimeouts[key].status = "active"

\* C19: callbackOutgoingRequests terminates when the errbacks it runs send
\* new requests while the endpoint is connected: every pass of its loop
\* leaves fewer entries in _outgoing_requests than it found, so the loop
\* ends after as many passes as there were entries at call time.
C19_DrainTerminates ==
    [][(draining # None /\ draining' # None /\ connected = 1) =>
          Cardinality(DOMAIN outgoing_requests')
             < Cardinality(DOMAIN outgoing_requests)]_vars

====
